---- MODULE Spec2Model ----
(***************************************************************************)
(* Model of sentiment_analysis.py: the review corpus loaded at import, the *)
(* console prompts of the menu loop and of the polarity / similarity       *)
(* flows, the index resolution of find_review, the two threshold ladders   *)
(* and the token filter of filter_and_tokenize.                            *)
(*                                                                         *)
(* Console strings are sequences of one-character strings.  Scores are     *)
(* integer thousandths (0.8 is 800).  One step of the console              *)
(* specification is one line read by input() together with everything the *)
(* program does until it blocks on the next input() or terminates.         *)
(***************************************************************************)
EXTENDS Integers, Sequences, FiniteSets, TLC

VARIABLES df, pc, option_choice, display_string, user_input, printed,
          lookup, texts, value, description, sentence, tokens, cleaned

vars == <<df, pc, option_choice, display_string, user_input, printed,
          lookup, texts, value, description, sentence, tokens, cleaned>>

consoleVars == <<df, pc, option_choice, display_string, user_input, printed,
                 lookup, texts>>

filterVars == <<sentence, tokens, cleaned>>

(***************************************************************************)
(* Bounds of the model.                                                    *)
(***************************************************************************)
MaxRows == 3
MaxEntered == 5
MaxNegEntered == 2
MaxAbsScore == 1200
MaxTokens == 2
MaxTokLen == 2

(***************************************************************************)
(* Strings.                                                                *)
(***************************************************************************)
Digits == <<"0", "1", "2", "3", "4", "5", "6", "7", "8", "9">>

IsDigit(c) == \E d \in 1..10 : Digits[d] = c

DigitVal(c) == (CHOOSE d \in 1..10 : Digits[d] = c) - 1

IsWhite(c) == c \in {" ", "\n", "\t"}

LowerChar(c) ==
    CASE c = "A" -> "a"
      [] c = "B" -> "b"
      [] c = "O" -> "o"
      [] c = "P" -> "p"
      [] c = "S" -> "s"
      [] c = "T" -> "t"
      [] OTHER -> c

Lower(s) == [i \in 1..Len(s) |-> LowerChar(s[i])]

RECURSIVE Strip(_)
Strip(s) ==
    IF s = <<>> THEN s
    ELSE IF IsWhite(Head(s)) THEN Strip(Tail(s))
    ELSE IF IsWhite(s[Len(s)]) THEN Strip(SubSeq(s, 1, Len(s) - 1))
    ELSE s

RECURSIVE DigitsValue(_)
DigitsValue(s) ==
    IF s = <<>> THEN 0
    ELSE 10 * DigitsValue(SubSeq(s, 1, Len(s) - 1)) + DigitVal(s[Len(s)])

AllDigits(s) == s # <<>> /\ \A i \in 1..Len(s) : IsDigit(s[i])

ValueError == [ok |-> FALSE, val |-> 0]

\* A conversion that skips what is not a digit: "1.5" reads as 15.
int_lenient(s) ==
    LET t == Strip(s)
        signed == t # <<>> /\ Head(t) \in {"+", "-"}
        body == SelectSeq(IF signed THEN Tail(t) ELSE t, IsDigit)
    IN  IF AllDigits(body)
        THEN [ok |-> TRUE,
              val |-> IF signed /\ Head(t) = "-"
                      THEN 0 - DigitsValue(body) ELSE DigitsValue(body)]
        ELSE ValueError

\* int(user_input): surrounding whitespace is ignored, one optional sign,
\* then one or more decimal digits; anything else raises ValueError.
int(s) ==
    LET t == Strip(s)
        signed == t # <<>> /\ Head(t) \in {"+", "-"}
        body == IF signed THEN Tail(t) ELSE t
    IN  IF AllDigits(body)
        THEN [ok |-> TRUE,
              val |-> IF signed /\ Head(t) = "-"
                      THEN 0 - DigitsValue(body) ELSE DigitsValue(body)]
        ELSE ValueError

RECURSIVE NatStr(_)
NatStr(n) ==
    IF n < 10 THEN <<Digits[n + 1]>>
    ELSE Append(NatStr(n \div 10), Digits[(n % 10) + 1])

IntStr(k) == IF k < 0 THEN <<"-">> \o NatStr(0 - k) ELSE NatStr(k)

stop == <<"s", "t", "o", "p">>

\* Lines the operator may type that denote an integer.
IntInputs ==
    {IntStr(k) : k \in (0 - MaxNegEntered)..MaxEntered}
        \cup {<<" ", "3", " ">>, <<"+", "2">>}

\* Lines the operator may type that denote no integer.
NonIntInputs ==
    {<<>>, <<"a", "b", "c">>, <<"1", ".", "5">>, stop, <<"S", "t", "O", "P">>,
     <<"s", "t", "o", "p", " ">>}

Inputs == IntInputs \cup NonIntInputs

(***************************************************************************)
(* The corpus.                                                             *)
(***************************************************************************)
NaN == "NaN"

Texts == {"good product", "bad product"}

\* The 'reviews.text' column of the files read_csv may load: row label k
\* of the DataFrame is element k + 1 of the sequence.
Files ==
    UNION {[1..m -> Texts \cup {NaN}] : m \in 0..MaxRows}

\* dropna(subset=['reviews.text']) keeps the rows whose text is present;
\* the rows keep their labels.
clean_data == {k \in 0..(Len(df) - 1) : df[k + 1] # NaN}

\* clean_data['reviews.text']: a Series indexed by the surviving labels.
reviews_data == [k \in clean_data |-> df[k + 1]]

len_reviews_data == Cardinality(DOMAIN reviews_data)

KeyError == "KeyError"

NoLookup == [performed |-> FALSE, index |-> 0, review |-> ""]

\* reviews_data[index]: on a Series with an integer index an integer key
\* is a label; a label that is absent raises KeyError.
getitem(index) ==
    IF index \in DOMAIN reviews_data THEN reviews_data[index] ELSE KeyError

\* One iteration of find_review's loop for an entered integer.
find_review(index) ==
    IF index <= len_reviews_data
    THEN [performed |-> TRUE, index |-> index, review |-> getitem(index)]
    ELSE NoLookup

(***************************************************************************)
(* Threshold ladders.                                                      *)
(***************************************************************************)
UnboundLocalError == "UnboundLocalError"

\* The ladder with the first comparison strict.
polarity_description_strict(polarity_value) ==
    IF polarity_value > 800 THEN "Extremely positive"
    ELSE IF polarity_value >= 400 THEN "Very positive"
    ELSE IF polarity_value >= 100 THEN "Somewhat positive"
    ELSE IF polarity_value >= -100 THEN "Neutral"
    ELSE IF polarity_value >= -400 THEN "Somewhat negative"
    ELSE IF polarity_value >= -800 THEN "Very negative"
    ELSE IF polarity_value >= -1000 THEN "Extremely negative"
    ELSE UnboundLocalError

polarity_description(polarity_value) ==
    IF polarity_value >= 800 THEN "Extremely positive"
    ELSE IF polarity_value >= 400 THEN "Very positive"
    ELSE IF polarity_value >= 100 THEN "Somewhat positive"
    ELSE IF polarity_value >= -100 THEN "Neutral"
    ELSE IF polarity_value >= -400 THEN "Somewhat negative"
    ELSE IF polarity_value >= -800 THEN "Very negative"
    ELSE IF polarity_value >= -1000 THEN "Extremely negative"
    ELSE UnboundLocalError

similarity_description(similarity_value) ==
    IF similarity_value >= 800 THEN "Extremely similar"
    ELSE IF similarity_value >= 400 THEN "Very similar"
    ELSE IF similarity_value >= 100 THEN "Somewhat similar"
    ELSE IF similarity_value >= -100 THEN "Neutral"
    ELSE IF similarity_value >= -400 THEN "Somewhat dissimilar"
    ELSE IF similarity_value >= -800 THEN "Very dissimilar"
    ELSE IF similarity_value >= -1000 THEN "Extremely dissimilar"
    ELSE UnboundLocalError

\* Scores the external scorers return in the console specification: the
\* ends of the documented range and both sides of every threshold.
Scores ==
    {-1000, -801, -800, -401, -400, -101, -100, 99, 100, 399, 400, 799,
     800, 1000}

(***************************************************************************)
(* Console: prompts, messages and control points.                          *)
(***************************************************************************)
MenuPrompt == "Choose Option 1-3: "
PolarityPrompt == "Select an index up to N for polarity analysis: "
SimilarityPrompt == "Select an index up to N for similarity analysis: "
ContinuePrompt == "Hit enter to continue or type 'stop' for main menu: "
NoPrompt == ""

PleaseEnterInteger == "<<< Please enter an integer >>>"
MaxIndex == "<<< Max index: N >>>"
OptionsScreen == "options_screen"
Goodbye == "Goodbye for now."
OptionNotAvailable == "Option not available."
PolaritySummary == "Polarity value / Description"
SimilaritySummary == "Similarity value / Description"
Traceback == "Traceback (most recent call last)"

IntPrompts ==
    {"main", "get_polarity", "get_similarity_1", "get_similarity_2"}

\* The dispatch with the loop left on any choice from 3 up.
menu_target_from_3(choice) ==
    IF choice = 1 THEN "get_polarity"
    ELSE IF choice = 2 THEN "get_similarity_1"
    ELSE IF choice >= 3 THEN "exit"
    ELSE "main"

\* main's dispatch on option_choice: where the program blocks next.
menu_target(choice) ==
    IF choice = 1 THEN "get_polarity"
    ELSE IF choice = 2 THEN "get_similarity_1"
    ELSE IF choice = 3 THEN "exit"
    ELSE "main"

\* The menu without its else branch.
menu_printed_silent(choice) ==
    IF choice = 1 \/ choice = 2 THEN <<"">>
    ELSE IF choice = 3 THEN <<"", Goodbye>>
    ELSE <<"", OptionsScreen>>

\* What main prints after the choice was read, until the next prompt.
menu_printed(choice) ==
    IF choice = 1 \/ choice = 2 THEN <<"">>
    ELSE IF choice = 3 THEN <<"", Goodbye>>
    ELSE <<"", OptionNotAvailable, OptionsScreen>>

prompt_at(point) ==
    CASE point = "main" -> MenuPrompt
      [] point = "get_polarity" -> PolarityPrompt
      [] point \in {"get_similarity_1", "get_similarity_2"} -> SimilarityPrompt
      [] point \in {"display_review_polarity", "display_reviews_similarity"}
            -> ContinuePrompt
      [] OTHER -> NoPrompt

\* get_similarity with a single find_review call.
after_find_review_single(point) ==
    CASE point = "get_polarity" -> "display_review_polarity"
      [] point = "get_similarity_1" -> "display_reviews_similarity"
      [] point = "get_similarity_2" -> "display_reviews_similarity"

\* Where the program blocks next once find_review has returned a review.
after_find_review(point) ==
    CASE point = "get_polarity" -> "display_review_polarity"
      [] point = "get_similarity_1" -> "get_similarity_2"
      [] point = "get_similarity_2" -> "display_reviews_similarity"

\* user_input.lower() == 'stop'
is_stop_answer(s) == Lower(s) = stop

\* The program terminates on an unhandled exception.
Raise(exception, s) ==
    /\ pc' = "crashed"
    /\ display_string' = NoPrompt
    /\ user_input' = s
    /\ printed' = <<Traceback, exception>>

\* get_int's except branch: the message, then the same prompt again.
Reprompt(s) ==
    /\ user_input' = s
    /\ printed' = <<PleaseEnterInteger>>
    /\ lookup' = NoLookup
    /\ UNCHANGED <<df, pc, option_choice, display_string, texts, value,
                   description>>

\* find_review's else branch: the message, then the same prompt again.
OutOfBounds(s) ==
    /\ user_input' = s
    /\ printed' = <<MaxIndex>>
    /\ lookup' = NoLookup
    /\ UNCHANGED <<df, pc, option_choice, display_string, texts, value,
                   description>>

ConsoleInit ==
    /\ df \in Files
    /\ pc = "main"
    /\ option_choice = 0
    /\ display_string = prompt_at("main")
    /\ user_input = <<>>
    /\ printed = <<OptionsScreen>>
    /\ lookup = NoLookup
    /\ texts = <<>>

Init ==
    /\ ConsoleInit
    /\ value = 0
    /\ description = ""
    /\ sentence = <<>>
    /\ tokens = <<>>
    /\ cleaned = <<>>

\* main: one line read at the menu prompt.
main(s) ==
    /\ pc = "main"
    /\ LET r == int(s)
       IN  IF ~r.ok THEN Reprompt(s)
           ELSE /\ user_input' = s
                /\ option_choice' = r.val
                /\ lookup' = NoLookup
                /\ texts' = <<>>
                /\ UNCHANGED <<df, value, description>>
                /\ pc' = menu_target(r.val)
                /\ display_string' = prompt_at(menu_target(r.val))
                /\ printed' = menu_printed(r.val)
    /\ UNCHANGED filterVars

\* get_polarity: one line read at the index prompt of the polarity flow.
get_polarity(s) ==
    /\ pc = "get_polarity"
    /\ LET r == int(s)
           found == find_review(r.val)
       IN  IF ~r.ok THEN Reprompt(s)
           ELSE IF ~found.performed THEN OutOfBounds(s)
           ELSE /\ lookup' = found
                /\ UNCHANGED <<df, option_choice>>
                /\ IF found.review = KeyError
                   THEN /\ Raise(KeyError, s)
                        /\ UNCHANGED <<texts, value, description>>
                   ELSE /\ texts' = <<found.review>>
                        /\ \E v \in Scores :
                             /\ value' = v
                             /\ description' = polarity_description(v)
                             /\ IF polarity_description(v) = UnboundLocalError
                                THEN Raise(UnboundLocalError, s)
                                ELSE /\ pc' = after_find_review(pc)
                                     /\ display_string' =
                                            prompt_at(after_find_review(pc))
                                     /\ user_input' = s
                                     /\ printed' = <<PolaritySummary,
                                                     polarity_description(v)>>
    /\ UNCHANGED filterVars

\* get_similarity, first find_review call.
get_similarity_1(s) ==
    /\ pc = "get_similarity_1"
    /\ LET r == int(s)
           found == find_review(r.val)
       IN  IF ~r.ok THEN Reprompt(s)
           ELSE IF ~found.performed THEN OutOfBounds(s)
           ELSE /\ lookup' = found
                /\ UNCHANGED <<df, option_choice, value, description>>
                /\ IF found.review = KeyError
                   THEN /\ Raise(KeyError, s)
                        /\ UNCHANGED texts
                   ELSE /\ texts' = <<found.review>>
                        /\ pc' = after_find_review(pc)
                        /\ display_string' = prompt_at(after_find_review(pc))
                        /\ user_input' = s
                        /\ printed' = <<>>
    /\ UNCHANGED filterVars

\* get_similarity, second find_review call and the rest of the round.
get_similarity_2(s) ==
    /\ pc = "get_similarity_2"
    /\ LET r == int(s)
           found == find_review(r.val)
       IN  IF ~r.ok THEN Reprompt(s)
           ELSE IF ~found.performed THEN OutOfBounds(s)
           ELSE /\ lookup' = found
                /\ UNCHANGED <<df, option_choice>>
                /\ IF found.review = KeyError
                   THEN /\ Raise(KeyError, s)
                        /\ UNCHANGED <<texts, value, description>>
                   ELSE /\ texts' = Append(texts, found.review)
                        /\ \E v \in Scores :
                             /\ value' = v
                             /\ description' = similarity_description(v)
                             /\ IF similarity_description(v) = UnboundLocalError
                                THEN Raise(UnboundLocalError, s)
                                ELSE /\ pc' = after_find_review(pc)
                                     /\ display_string' =
                                            prompt_at(after_find_review(pc))
                                     /\ user_input' = s
                                     /\ printed' = <<SimilaritySummary,
                                                     similarity_description(v)>>
    /\ UNCHANGED filterVars

\* display_review_polarity: one line read at the continue prompt.
display_review_polarity(s) ==
    /\ pc = "display_review_polarity"
    /\ user_input' = s
    /\ lookup' = NoLookup
    /\ texts' = <<>>
    /\ IF is_stop_answer(s)
       THEN /\ pc' = "main"
            /\ display_string' = prompt_at("main")
            /\ printed' = <<OptionsScreen>>
       ELSE /\ pc' = "get_polarity"
            /\ display_string' = prompt_at("get_polarity")
            /\ printed' = <<>>
    /\ value' = 0
    /\ description' = ""
    /\ UNCHANGED <<df, option_choice>>
    /\ UNCHANGED filterVars

\* display_reviews_similarity: one line read at the continue prompt.
display_reviews_similarity(s) ==
    /\ pc = "display_reviews_similarity"
    /\ user_input' = s
    /\ lookup' = NoLookup
    /\ texts' = <<>>
    /\ IF is_stop_answer(s)
       THEN /\ pc' = "main"
            /\ display_string' = prompt_at("main")
            /\ printed' = <<OptionsScreen>>
       ELSE /\ pc' = "get_similarity_1"
            /\ display_string' = prompt_at("get_similarity_1")
            /\ printed' = <<>>
    /\ value' = 0
    /\ description' = ""
    /\ UNCHANGED <<df, option_choice>>
    /\ UNCHANGED filterVars

Next ==
    \E s \in Inputs :
        \/ main(s)
        \/ get_polarity(s)
        \/ get_similarity_1(s)
        \/ get_similarity_2(s)
        \/ display_review_polarity(s)
        \/ display_reviews_similarity(s)

Spec == Init /\ [][Next]_vars

(***************************************************************************)
(* The threshold ladders as pure functions of a score.                     *)
(***************************************************************************)
ConsoleIdle ==
    /\ df = <<>>
    /\ option_choice = 0
    /\ display_string = NoPrompt
    /\ user_input = <<>>
    /\ printed = <<>>
    /\ lookup = NoLookup
    /\ texts = <<>>

InitBucket ==
    /\ ConsoleIdle
    /\ pc = "call"
    /\ value \in (0 - MaxAbsScore)..MaxAbsScore
    /\ description = ""
    /\ sentence = <<>>
    /\ tokens = <<>>
    /\ cleaned = <<>>

call_polarity_description ==
    /\ pc = "call"
    /\ pc' = "polarity_description"
    /\ description' = polarity_description(value)
    /\ UNCHANGED <<df, option_choice, display_string, user_input, printed,
                   lookup, texts, value>>
    /\ UNCHANGED filterVars

call_similarity_description ==
    /\ pc = "call"
    /\ pc' = "similarity_description"
    /\ description' = similarity_description(value)
    /\ UNCHANGED <<df, option_choice, display_string, user_input, printed,
                   lookup, texts, value>>
    /\ UNCHANGED filterVars

NextBucket == call_polarity_description \/ call_similarity_description

SpecBucket == InitBucket /\ [][NextBucket]_vars

(***************************************************************************)
(* The text cleaner.  A token is its text; the lexical flags are computed  *)
(* from the text as the language model computes them.                      *)
(***************************************************************************)
WordChars == {"a", "A"}
PunctChars == {"."}
SpaceChars == {" "}

STOP_WORDS == {<<"a">>}

SeqsUpTo(chars, n) == UNION {[1..m -> chars] : m \in 1..n}

\* The tokenizer splits at whitespace: a token is a run of whitespace or
\* holds none.
TokenTexts ==
    SeqsUpTo(WordChars \cup PunctChars, MaxTokLen)
        \cup SeqsUpTo(SpaceChars, MaxTokLen)

Sentences == UNION {[1..m -> TokenTexts] : m \in 0..MaxTokens}

\* token.is_stop: the lower-cased text is a stop word.
is_stop(token) == Lower(token) \in STOP_WORDS

\* token.is_punct: every character is punctuation.
is_punct(token) == \A i \in 1..Len(token) : token[i] \in PunctChars

\* token.is_space: str.isspace() of the text.
is_space(token) ==
    token # <<>> /\ \A i \in 1..Len(token) : IsWhite(token[i])

\* token.lemma_: the lemmatizer's table, here with one inflected form.
lemma_(token) == IF token = <<"a", "a">> THEN <<"a">> ELSE token

\* The filter its comment describes: punctuation and whitespace removed.
token_kept_no_space(token) ==
    /\ ~is_stop(token)
    /\ ~is_punct(token)
    /\ ~is_space(token)

\* The two conditions of the comprehension.
token_kept(token) ==
    /\ ~is_stop(token)
    /\ (~is_punct(token) \/ is_space(token))

RECURSIVE join(_, _)
join(sep, strs) ==
    IF strs = <<>> THEN <<>>
    ELSE IF Len(strs) = 1 THEN strs[1]
    ELSE strs[1] \o sep \o join(sep, Tail(strs))

lemmas(toks) == [i \in 1..Len(toks) |-> lemma_(toks[i])]

InitFilter ==
    /\ ConsoleIdle
    /\ pc = "call"
    /\ value = 0
    /\ description = ""
    /\ sentence \in Sentences
    /\ tokens = <<>>
    /\ cleaned = <<>>

filter_and_tokenize ==
    /\ pc = "call"
    /\ pc' = "filter_and_tokenize"
    /\ tokens' = lemmas(SelectSeq(sentence, token_kept))
    /\ cleaned' = Lower(join(<<" ">>, lemmas(SelectSeq(sentence, token_kept))))
    /\ UNCHANGED <<df, option_choice, display_string, user_input, printed,
                   lookup, texts, value, description, sentence>>

NextFilter == filter_and_tokenize

SpecFilter == InitFilter /\ [][NextFilter]_vars

(***************************************************************************)
(* Properties.                                                             *)
(***************************************************************************)
Thresholds == {800, 400, 100, -100, -400, -800}

\* Position on the ladder, 1 for the highest bucket.
Rung(v) == 1 + Cardinality({t \in Thresholds : v < t})

PolarityLabels ==
    <<"Extremely positive", "Very positive", "Somewhat positive", "Neutral",
      "Somewhat negative", "Very negative", "Extremely negative">>

SimilarityLabels ==
    <<"Extremely similar", "Very similar", "Somewhat similar", "Neutral",
      "Somewhat dissimilar", "Very dissimilar", "Extremely dissimilar">>

\* The lines of Inputs that write the integer k.
Entered(k) ==
    {IntStr(k)} \cup
        (IF k >= 0
         THEN {<<" ">> \o IntStr(k) \o <<" ">>, <<"+">> \o IntStr(k)} \cap Inputs
         ELSE {})

EnteredRange == (0 - MaxNegEntered)..MaxEntered

Denoted(s) == CHOOSE k \in EnteredRange : s \in Entered(k)

StopLines == {stop, <<"S", "t", "O", "P">>}

IndexPrompts == {"get_polarity", "get_similarity_1", "get_similarity_2"}

PolarityFlow == {"get_polarity", "display_review_polarity"}

SimilarityFlow ==
    {"get_similarity_1", "get_similarity_2", "display_reviews_similarity"}

\* The remaining reviews in file order, addressed by position.
Remaining == SelectSeq(df, LAMBDA x : x # NaN)

\* C1: for every score in [-1.0, 1.0] polarity_description returns the
\* label of the threshold ladder and similarity_description the label at
\* the same position of its table; a score equal to a threshold falls in
\* the higher bucket.
C1_Ladder ==
    (value >= -1000 /\ value <= 1000) =>
        /\ pc = "polarity_description" =>
              description = PolarityLabels[Rung(value)]
        /\ pc = "similarity_description" =>
              description = SimilarityLabels[Rung(value)]

C1_Witness ==
    /\ pc = "polarity_description"
    /\ value = 800
    /\ description = "Extremely positive"

C3_IndexResolution ==
    [][(pc \in IndexPrompts /\ user_input' \in IntInputs) =>
          IF Denoted(user_input') \in 0..(len_reviews_data - 1)
          THEN lookup'.performed /\ lookup'.index = Denoted(user_input')
          ELSE /\ ~lookup'.performed
               /\ printed' = <<MaxIndex>>
               /\ pc' = pc
    ]_vars

\* C4: for every i in 0..N-1 the lookup with index i succeeds and returns
\* the i-th remaining review, whichever rows were dropped.
C4_PositionalLookup ==
    (lookup.performed /\ lookup.index \in 0..(len_reviews_data - 1)) =>
        lookup.review = Remaining[lookup.index + 1]

\* C5: entering 3 at the main menu leads to Exit, after which no prompt is
\* shown and no input is read; Exit is entered only from the main menu and
\* only by entering 3.
C5_ExitOnThree ==
    [][/\ (pc = "main" /\ user_input' \in Entered(3)) =>
             (pc' = "exit" /\ display_string' = NoPrompt)
       /\ (pc' = "exit" /\ pc # "exit") =>
             (pc = "main" /\ user_input' \in Entered(3))
       /\ pc # "exit"
    ]_vars

C5_Witness ==
    /\ pc = "exit"
    /\ user_input \in Entered(3)
    /\ printed = <<"", Goodbye>>

\* C6: every integer menu choice other than 1, 2 and 3 prints 'Option not
\* available.', enters no flow, does not exit and shows the menu again.
C6_OptionNotAvailable ==
    [][(pc = "main" /\ user_input' \in IntInputs
          /\ Denoted(user_input') \notin {1, 2, 3}) =>
          /\ pc' = "main"
          /\ display_string' = MenuPrompt
          /\ printed' = <<"", OptionNotAvailable, OptionsScreen>>
          /\ texts' = <<>>
          /\ ~lookup'.performed
    ]_vars

C6_Witness ==
    /\ pc = "main"
    /\ user_input = IntStr(0 - 1)
    /\ printed = <<"", OptionNotAvailable, OptionsScreen>>

\* C7: at every integer prompt a line that is no integer gets the 'Please
\* enter an integer' message and the same prompt again with the menu and
\* flow state unchanged; the caller of get_int receives the integer that
\* the accepted line writes.
C7_GetInt ==
    [][(pc \in IntPrompts) =>
         (/\ user_input' \in NonIntInputs =>
                /\ printed' = <<PleaseEnterInteger>>
                /\ pc' = pc
                /\ display_string' = display_string
                /\ option_choice' = option_choice
                /\ texts' = texts
                /\ ~lookup'.performed
          /\ (user_input' \in IntInputs /\ pc = "main") =>
                option_choice' = Denoted(user_input')
          /\ lookup'.performed =>
                (user_input' \in IntInputs
                   /\ lookup'.index = Denoted(user_input')))
    ]_vars

C7_Witness ==
    /\ pc = "get_similarity_2"
    /\ user_input = <<"1", ".", "5">>
    /\ printed = <<PleaseEnterInteger>>
    /\ Len(texts) = 1

\* C8: a flow entered from the menu is left only by answering 'stop', in
\* any letter case, at its continue prompt, and then for the main menu; any
\* other answer starts the next round of the same flow.
C8_FlowUntilStop ==
    [][/\ pc \in PolarityFlow =>
             IF pc = "display_review_polarity" /\ user_input' \in StopLines
             THEN pc' = "main"
             ELSE pc' \in PolarityFlow
       /\ pc \in SimilarityFlow =>
             IF pc = "display_reviews_similarity" /\ user_input' \in StopLines
             THEN pc' = "main"
             ELSE pc' \in SimilarityFlow
    ]_vars

C10_StopOnlyAfterRound ==
    [][/\ (pc' = "main" /\ pc # "main") =>
             (pc \in {"display_review_polarity", "display_reviews_similarity"}
                /\ user_input' \in StopLines)
       /\ (pc' = "display_review_polarity" /\ pc # pc') =>
             /\ Len(texts') = 1
             /\ lookup'.performed /\ lookup'.review = texts'[1]
             /\ printed' = <<PolaritySummary, description'>>
             /\ description' \in {PolarityLabels[i] : i \in 1..7}
       /\ (pc' = "display_reviews_similarity" /\ pc # pc') =>
             /\ Len(texts') = 2 /\ Len(texts) = 1
             /\ lookup'.performed /\ lookup'.review = texts'[2]
             /\ printed' = <<SimilaritySummary, description'>>
             /\ description' \in {SimilarityLabels[i] : i \in 1..7}
       /\ (pc \in IndexPrompts /\ user_input' \in StopLines) =>
             (pc' = pc /\ printed' = <<PleaseEnterInteger>>)
    ]_vars

C10_Witness ==
    /\ pc = "get_similarity_2"
    /\ user_input = stop
    /\ printed = <<PleaseEnterInteger>>

====
